---- MODULE Spec2Model ----
(***************************************************************************)
(* isochroner: the resumable batch loop of isochroner.py                   *)
(* (isochrone_batch, shp_to_isochrones, iterate_isochrones,                *)
(* check_isochrones, batch) as a state machine.                            *)
(*                                                                         *)
(* Conventions of the model                                                *)
(*  - An input record is its identifier (the matching_var value, an        *)
(*    integer, unique in the table); its centroid is a token of the        *)
(*    record.                                                              *)
(*  - A point is <<lat, lng>> with integer coordinates; the statistics of  *)
(*    check_isochrones are computed exactly (rationals as <<num, den>>),   *)
(*    the float rounding of the division and of the square root is not     *)
(*    modelled.                                                            *)
(*  - The output CSV is `exists` plus the sequence `file` of its data      *)
(*    rows; the header is implicit.  An empty GEOID cell (NaN) is {}, a    *)
(*    filled one is {id}.                                                  *)
(*  - The routing collaborator (isocronut.get_isochrone) is external: each *)
(*    call either raises or returns a boundary point set.                  *)
(***************************************************************************)
EXTENDS Integers, Sequences, FiniteSets, TLC

VARIABLES
    gdf,        \* the input table: sequence of record identifiers
    exists,     \* os.path.exists(out_filename)
    file,       \* data rows of the output CSV
    pc,         \* per invocation: idle, build, read, write, done, failed
    args,       \* per invocation: duration, keep_cols, batch_size
    unfinished, \* per invocation: gdf_unfinished
    ndx,        \* per invocation: the batch generator's offset
    wide,       \* per invocation: the duration columns of df built so far
    batch_df,   \* per invocation: the table shp_to_isochrones returned
    snap,       \* per invocation: what pd.read_csv(out_filename) returned
    calls,      \* per invocation: routing requests issued so far
    err,        \* per invocation: the exception that aborted it
    runs,       \* invocations started so far
    startFile,  \* history: data rows of the file when the invocation started
    startExists,\* history: whether the file existed when it started
    prev,       \* history: the invocation that ended before the current one
    lost,       \* history: rows a write has removed from the file
    points,     \* check_isochrones: its argument (list of point sets)
    std_devs,   \* check_isochrones: its threshold
    corrected,  \* check_isochrones: its result
    chk_err     \* check_isochrones: the exception it raised, or "none"

vars == <<gdf, exists, file, pc, args, unfinished, ndx, wide, batch_df, snap,
          calls, err, runs, startFile, startExists, prev, lost,
          points, std_devs, corrected, chk_err>>

batchVars == <<gdf, exists, file, pc, args, unfinished, ndx, wide, batch_df,
               snap, calls, err, runs, startFile, startExists, prev, lost>>

filterVars == <<points, std_devs, corrected, chk_err>>

----------------------------------------------------------------------------
(* Bounds of the model *)

MaxRecs == 3
MaxBatch == 2
MaxRuns == 2
MaxPts == 2
MaxCoord == 1
MaxT == 2

(* Program constants *)

DefaultDuration == 15
ExampleDuration == 20
DefaultStdDevs == 2
Tolerance == 2

Procs == {1, 2}

----------------------------------------------------------------------------
(* Sequences *)

Range(s) == {s[i] : i \in 1..Len(s)}

Min(a, b) == IF a < b THEN a ELSE b

RECURSIVE SumSeq(_)
SumSeq(s) == IF s = <<>> THEN 0 ELSE s[1] + SumSeq(Tail(s))

RECURSIVE Flatten(_)
Flatten(ss) == IF ss = <<>> THEN <<>> ELSE ss[1] \o Flatten(Tail(ss))

IsPrefix(s, t) == Len(s) <= Len(t) /\ SubSeq(t, 1, Len(s)) = s

\* iterable[a:b] of Python, 0-based and half-open, for 0 <= a
Slice(s, a, b) == SubSeq(s, a + 1, Min(b, Len(s)))

----------------------------------------------------------------------------
(* batch(iterable, n): the ndx-th slice, and the offsets range(0, li, n) *)

\* a slice that starts one record late
batchOffByOne(iterable, n, at) == Slice(iterable, at + 1, Min(at + n, Len(iterable)))

batch(iterable, n, at) == Slice(iterable, at, Min(at + n, Len(iterable)))

BatchOffsets(li, n) == {k \in 0..li : k < li /\ k % n = 0}

(* get_centroids(gdf): one coordinate pair per record, in order *)

get_centroids(g) == [j \in 1..Len(g) |-> [of |-> g[j], order |-> "lat,lng"]]

\* x[::-1] on a coordinate pair
Reversed(c) ==
    [of |-> c.of, order |-> IF c.order = "lat,lng" THEN "lng,lat" ELSE "lat,lng"]

----------------------------------------------------------------------------
(* statistics.mean / statistics.stdev on a column, exact *)

Column(ps, c) == [i \in 1..Len(ps) |-> ps[i][c]]

\* st.mean(xs) as the rational <<numerator, denominator>>
st_mean(xs) == <<SumSeq(xs), Len(xs)>>

\* sum of squared deviations from the mean, as a rational over n^2
st_ss(xs) ==
    LET n == Len(xs)
        m == st_mean(xs)
    IN <<SumSeq([i \in 1..n |-> (n * xs[i] - m[1]) * (n * xs[i] - m[1])]), n * n>>

\* the population variance, ss / n
st_pvariance(xs) ==
    LET ss == st_ss(xs) IN <<ss[1], ss[2] * Len(xs)>>

\* st.stdev(xs)^2 = ss / (n - 1), as a rational; needs Len(xs) >= 2
st_variance(xs) ==
    LET ss == st_ss(xs) IN <<ss[1], ss[2] * (Len(xs) - 1)>>

\* a filter that guards the division
SdNeverZero(xs) == FALSE

\* sd = 0
SdIsZero(xs) == st_variance(xs)[1] = 0

\* abs(mean - x) / sd < std_devs, for sd > 0:
\* (mean - x)^2 < std_devs^2 * variance, cross-multiplied
WithinSd(x, xs, t) ==
    LET m == st_mean(xs)
        v == st_variance(xs)
        d == m[1] - x * m[2]
    IN  /\ t > 0
        /\ d * d * v[2] < t * t * v[1] * m[2] * m[2]

(* check_isochrones on one point set: [err, val].  The comprehension       *)
(* evaluates, point by point, the latitude test and, only when that holds, *)
(* the longitude test; a test with sd = 0 divides by zero.                 *)

RECURSIVE FilterFrom(_, _, _, _)
FilterFrom(ps, i, lat, lng) ==
    \* lat, lng: [zero, in]: whether that sd is 0, and the test per point
    IF i > Len(ps) THEN [err |-> "none", val |-> <<>>]
    ELSE IF lat.zero THEN [err |-> "ZeroDivisionError", val |-> <<>>]
    ELSE IF ~lat.in[i] THEN FilterFrom(ps, i + 1, lat, lng)
    ELSE IF lng.zero THEN [err |-> "ZeroDivisionError", val |-> <<>>]
    ELSE LET rest == FilterFrom(ps, i + 1, lat, lng)
         IN IF rest.err # "none" THEN rest
            ELSE [err |-> "none",
                  val |-> IF lng.in[i] THEN <<ps[i]>> \o rest.val ELSE rest.val]

ColumnTest(ps, c, t) ==
    LET xs == Column(ps, c)
        z == SdIsZero(xs)
    IN [zero |-> z,
        in |-> [i \in 1..Len(ps) |-> IF z THEN FALSE ELSE WithinSd(xs[i], xs, t)]]

check_one(ps, t) ==
    IF Len(ps) = 0 THEN [err |-> "none", val |-> <<>>]
    ELSE IF Len(ps) = 1 THEN [err |-> "StatisticsError", val |-> <<>>]
    ELSE FilterFrom(ps, 1, ColumnTest(ps, 1, t), ColumnTest(ps, 2, t))

(* check_isochrones(points, std_devs): set by set, the first failure ends it *)

RECURSIVE check_isochrones(_, _)
check_isochrones(pts, t) ==
    IF pts = <<>> THEN [err |-> "none", val |-> <<>>]
    ELSE LET one == check_one(pts[1], t)
         IN IF one.err # "none" THEN [err |-> one.err, val |-> <<>>]
            ELSE LET rest == check_isochrones(Tail(pts), t)
                 IN IF rest.err # "none" THEN rest
                    ELSE [err |-> "none", val |-> <<one.val>> \o rest.val]

----------------------------------------------------------------------------
(* geometry.Polygon(shell): the ring of the points, lng first when         *)
(* swapped; a shell of one or two points is rejected, an empty one gives   *)
(* the empty polygon.                                                      *)

PolygonOk(ps) == Len(ps) = 0 \/ Len(ps) >= 3

Polygon(ps, swap_xy) ==
    [i \in 1..Len(ps) |-> IF swap_xy THEN <<ps[i][2], ps[i][1]>> ELSE ps[i]]

(* A duration argument: the int d, or a list of ints *)

Scalar(d) == [list |-> FALSE, ds |-> <<d>>]

ListOf(ds) == [list |-> TRUE, ds |-> ds]

(* A routing request, and the collaborator's answer to it *)

Request(origin, duration) ==
    [origin |-> origin, duration |-> duration, tolerance |-> Tolerance]

Raises == [ok |-> FALSE, pts |-> <<>>]

Returns(ps) == [ok |-> TRUE, pts |-> ps]

(* iterate_isochrones(coords, key, duration, swap_xy) with the answers     *)
(* resp[j] of the collaborator: [err, calls, polys]                        *)

FirstRaise(resp) ==
    IF \E j \in 1..Len(resp) : ~resp[j].ok
    THEN CHOOSE j \in 1..Len(resp) :
            ~resp[j].ok /\ \A k \in 1..(j - 1) : resp[k].ok
    ELSE 0

iterate_isochrones(coords, duration, swap_xy, resp) ==
    LET n == Len(coords)
        f == FirstRaise(resp)
        made == IF f = 0 THEN n ELSE f
        reqs == [j \in 1..made |-> Request(coords[j], duration)]
        chk == check_isochrones([j \in 1..n |-> resp[j].pts], DefaultStdDevs)
    IN IF f # 0 THEN [err |-> "RoutingError", calls |-> reqs, polys |-> <<>>]
       ELSE IF chk.err # "none"
            THEN [err |-> chk.err, calls |-> reqs, polys |-> <<>>]
       ELSE IF \E j \in 1..n : ~PolygonOk(chk.val[j])
            THEN [err |-> "ValueError: LinearRing", calls |-> reqs, polys |-> <<>>]
       ELSE [err |-> "none", calls |-> reqs,
             polys |-> [j \in 1..n |-> Polygon(chk.val[j], swap_xy)]]

----------------------------------------------------------------------------
(* The arguments of an invocation *)

KeepNone == "None"
KeepStr == "GEOID"
KeepList == "[GEOID]"

KeepCols == {KeepNone, KeepStr, KeepList}

DurationArgs ==
    {Scalar(DefaultDuration), ListOf(<<DefaultDuration>>),
     ListOf(<<DefaultDuration, ExampleDuration>>)}

ArgsDomain == [dur : DurationArgs, keep : KeepCols, bs : 1..MaxBatch]

NoArgs == [dur |-> Scalar(DefaultDuration), keep |-> KeepNone, bs |-> 1]

\* type(duration) is int or (type(duration) is list and len(duration) == 1)
SingleBranch(a) == ~a.dur.list \/ Len(a.dur.ds) = 1

(* Rows of the tables shp_to_isochrones returns *)

Row(coords, geoid, duration, geometry) ==
    [coords |-> coords, GEOID |-> geoid, duration |-> duration,
     geometry |-> geometry]

\* the wide table of the single-duration branch (lines 85-90)
SingleRows(chunk, a, polys) ==
    LET coords == get_centroids(chunk)
    IN [j \in 1..Len(chunk) |->
          Row(coords[j],
              IF a.keep = KeepNone THEN {} ELSE {chunk[j]},
              a.dur.ds[1], polys[j])]

\* pd.melt of the duration columns (lines 97-108): duration by duration
MeltRows(chunk, a, cols) ==
    LET coords == get_centroids(chunk)
    IN Flatten([k \in 1..Len(cols) |->
          [j \in 1..Len(chunk) |->
              Row(Reversed(coords[j]), {chunk[j]}, a.dur.ds[k], cols[k][j])]])

(* The output file as isochrone_batch reads it *)

\* set(out_df[matching_var]): the GEOID cells, an empty cell matching no id
FileIds(rows) == UNION {rows[i].GEOID : i \in 1..Len(rows)}

\* a start that does not diff against the output file
UnfinishedIgnoresFile(g, rows) == g

\* unfinished_idx, then gdf[gdf[matching_var].isin(unfinished_idx)]
Unfinished(g, rows) ==
    LET unfinished_idx == {g[i] : i \in {j \in 1..Len(g) : g[j] \notin FileIds(rows)}}
    IN SelectSeq(g, LAMBDA item : item \in unfinished_idx)

Count(r, rows) == Cardinality({i \in 1..Len(rows) : rows[i] = r})

\* rows of `old` that `new` no longer holds
Dropped(old, new) ==
    LET distinct == Range(old)
        RECURSIVE Sum(_)
        Sum(S) == IF S = {} THEN 0
                  ELSE LET r == CHOOSE x \in S : TRUE
                       IN (IF Count(r, old) > Count(r, new)
                           THEN Count(r, old) - Count(r, new) ELSE 0)
                          + Sum(S \ {r})
    IN Sum(distinct)

----------------------------------------------------------------------------
(* isochrone_batch, step by step.  The steps are the accesses to the       *)
(* output file and the calls of iterate_isochrones between them.           *)

Abort(p, reason) ==
    /\ pc' = [pc EXCEPT ![p] = "failed"]
    /\ err' = [err EXCEPT ![p] = reason]

\* line 158: os.path.exists(out_filename)
BatchBegin(p, a) ==
    /\ pc[p] \in {"idle", "done", "failed"}
    /\ runs < MaxRuns
    /\ runs' = runs + 1
    /\ pc' = [pc EXCEPT ![p] = "load"]
    /\ args' = [args EXCEPT ![p] = a]
    /\ startExists' = [startExists EXCEPT ![p] = exists]
    /\ prev' = [prev EXCEPT ![p] =
                  [valid |-> pc[p] # "idle", args |-> args[p],
                   ok |-> pc[p] = "done", unf |-> unfinished[p],
                   ndx |-> ndx[p], err |-> err[p]]]
    /\ calls' = [calls EXCEPT ![p] = <<>>]
    /\ err' = [err EXCEPT ![p] = "none"]
    /\ unfinished' = [unfinished EXCEPT ![p] = <<>>]
    /\ ndx' = [ndx EXCEPT ![p] = 0]
    /\ wide' = [wide EXCEPT ![p] = <<>>]
    /\ batch_df' = [batch_df EXCEPT ![p] = <<>>]
    /\ snap' = [snap EXCEPT ![p] = <<>>]
    /\ startFile' = [startFile EXCEPT ![p] = file]
    /\ UNCHANGED <<gdf, exists, file, lost>>
    /\ UNCHANGED filterVars

\* lines 159-167: create the header-only file or load the file, then the
\* unfinished records and the batch generator
BatchLoad(p) ==
    /\ pc[p] = "load"
    /\ LET out_df == IF startExists[p] THEN file ELSE <<>>
           gdf_unfinished == Unfinished(gdf, out_df)
       IN /\ unfinished' = [unfinished EXCEPT ![p] = gdf_unfinished]
          /\ pc' = [pc EXCEPT ![p] =
                      IF Len(gdf_unfinished) = 0 THEN "done" ELSE "build"]
    /\ exists' = TRUE
    /\ file' = IF startExists[p] THEN file ELSE <<>>
    /\ lost' = IF startExists[p] THEN lost ELSE lost + Len(file)
    /\ startFile' = [startFile EXCEPT ![p] = file']
    /\ UNCHANGED <<gdf, args, ndx, wide, batch_df, snap, calls, err, runs,
                   startExists, prev>>
    /\ UNCHANGED filterVars

\* line 168: the slice the generator yields at its current offset
Chunk(p) == batch(unfinished[p], args[p].bs, ndx[p])

\* lines 169-170: one call of iterate_isochrones inside shp_to_isochrones,
\* with what shp_to_isochrones does before and after it
BatchBuild(p, resp) ==
    /\ pc[p] = "build"
    /\ Len(resp) = Len(Chunk(p))
    /\ LET a == args[p]
           chunk == Chunk(p)
           coords == get_centroids(chunk)
       IN IF SingleBranch(a)
          THEN \* lines 85-90
               IF a.dur.list /\ Len(chunk) # 1
               THEN /\ Abort(p, "ValueError: length")
                    /\ UNCHANGED <<calls, wide, batch_df>>
               ELSE LET it == iterate_isochrones(coords, a.dur, TRUE, resp)
                    IN /\ calls' = [calls EXCEPT ![p] = @ \o it.calls]
                       /\ IF it.err # "none"
                          THEN /\ Abort(p, it.err)
                               /\ UNCHANGED <<wide, batch_df>>
                          ELSE /\ batch_df' = [batch_df EXCEPT ![p] =
                                                 SingleRows(chunk, a, it.polys)]
                               /\ pc' = [pc EXCEPT ![p] = "read"]
                               /\ UNCHANGED <<wide, err>>
          ELSE \* lines 92-96, and 97-108 after the last duration
               LET k == Len(wide[p]) + 1
                   it == iterate_isochrones(coords, Scalar(a.dur.ds[k]), TRUE, resp)
                   cols == Append(wide[p], it.polys)
               IN /\ calls' = [calls EXCEPT ![p] = @ \o it.calls]
                  /\ IF it.err # "none"
                     THEN /\ Abort(p, it.err)
                          /\ UNCHANGED <<wide, batch_df>>
                     ELSE IF a.keep = KeepNone
                     THEN /\ Abort(p, "KeyError")
                          /\ UNCHANGED <<wide, batch_df>>
                     ELSE IF k < Len(a.dur.ds)
                     THEN /\ wide' = [wide EXCEPT ![p] = cols]
                          /\ UNCHANGED <<pc, err, batch_df>>
                     ELSE IF a.keep = KeepList
                     THEN /\ Abort(p, "TypeError")
                          /\ UNCHANGED <<wide, batch_df>>
                     ELSE /\ batch_df' = [batch_df EXCEPT ![p] =
                                            MeltRows(chunk, a, cols)]
                          /\ wide' = [wide EXCEPT ![p] = <<>>]
                          /\ pc' = [pc EXCEPT ![p] = "read"]
                          /\ UNCHANGED err
    /\ UNCHANGED <<gdf, exists, file, args, unfinished, ndx, snap, runs,
                   startFile, startExists, prev, lost>>
    /\ UNCHANGED filterVars

\* line 172, first half: pd.read_csv(out_filename)
BatchRead(p) ==
    /\ pc[p] = "read"
    /\ snap' = [snap EXCEPT ![p] = file]
    /\ pc' = [pc EXCEPT ![p] = "write"]
    /\ UNCHANGED <<gdf, exists, file, args, unfinished, ndx, wide, batch_df,
                   calls, err, runs, startFile, startExists, prev, lost>>
    /\ UNCHANGED filterVars

\* a rewrite that drops the rows read
AppendedOverwrites(old, new) == new

\* a rewrite that puts the new rows first
AppendedInFront(old, new) == new \o old

\* DataFrame.append: the rows read, then the new rows
Appended(old, new) == old \o new

\* line 172, second half: .append(batch_df).to_csv(out_filename), then the
\* generator's next offset (line 13)
BatchWrite(p) ==
    /\ pc[p] = "write"
    /\ file' = Appended(snap[p], batch_df[p])
    /\ lost' = lost + Dropped(file, file')
    /\ ndx' = [ndx EXCEPT ![p] = @ + args[p].bs]
    /\ pc' = [pc EXCEPT ![p] =
                IF ndx[p] + args[p].bs < Len(unfinished[p]) THEN "build" ELSE "done"]
    /\ batch_df' = [batch_df EXCEPT ![p] = <<>>]
    /\ snap' = [snap EXCEPT ![p] = <<>>]
    /\ UNCHANGED <<gdf, exists, args, unfinished, wide, calls, err, runs,
                   startFile, startExists, prev>>
    /\ UNCHANGED filterVars

----------------------------------------------------------------------------
(* The collaborator's answers in the batch specifications *)

Pt(lat, lng) == <<lat, lng>>

\* six points of a block and one far away, which the filter removes
SetOutlier ==
    <<Pt(0, 0), Pt(0, 1), Pt(1, 0), Pt(1, 1), Pt(0, 1), Pt(1, 0), Pt(9, 9)>>

\* all latitudes equal
SetFlatLat == <<Pt(1, 0), Pt(1, 1), Pt(1, 2)>>

SetSingle == <<Pt(0, 0)>>

Answers == {Raises, Returns(SetOutlier), Returns(SetFlatLat), Returns(SetSingle)}

AnswersFor(n) == [1..n -> Answers]

----------------------------------------------------------------------------
(* Sequential invocations: one isochrone_batch at a time *)

InputTables == {[i \in 1..n |-> n + 1 - i] : n \in 1..MaxRecs}

NoPrev == [valid |-> FALSE, args |-> NoArgs, ok |-> FALSE, unf |-> <<>>,
           ndx |-> 0, err |-> "none"]

InitBatch ==
    /\ exists = FALSE
    /\ file = <<>>
    /\ pc = [p \in Procs |-> "idle"]
    /\ args = [p \in Procs |-> NoArgs]
    /\ unfinished = [p \in Procs |-> <<>>]
    /\ ndx = [p \in Procs |-> 0]
    /\ wide = [p \in Procs |-> <<>>]
    /\ batch_df = [p \in Procs |-> <<>>]
    /\ snap = [p \in Procs |-> <<>>]
    /\ calls = [p \in Procs |-> <<>>]
    /\ err = [p \in Procs |-> "none"]
    /\ runs = 0
    /\ startFile = [p \in Procs |-> <<>>]
    /\ startExists = [p \in Procs |-> FALSE]
    /\ prev = [p \in Procs |-> NoPrev]
    /\ lost = 0

InitFilterIdle ==
    /\ points = <<>>
    /\ std_devs = DefaultStdDevs
    /\ corrected = <<>>
    /\ chk_err = "unset"

Init ==
    /\ gdf \in InputTables
    /\ InitBatch
    /\ InitFilterIdle

Next ==
    \/ \E a \in ArgsDomain : BatchBegin(1, a)
    \/ BatchLoad(1)
    \/ \E resp \in AnswersFor(Len(Chunk(1))) : BatchBuild(1, resp)
    \/ BatchRead(1)
    \/ BatchWrite(1)

Spec == Init /\ [][Next]_vars

----------------------------------------------------------------------------
(* Concurrent invocations against the same output path *)

ConcArgs == [dur : {Scalar(DefaultDuration)}, keep : {KeepStr}, bs : 1..MaxBatch]

ConcAnswersFor(n) == [1..n -> {Raises, Returns(SetOutlier)}]

NextConc ==
    \/ \E p \in Procs : \E a \in ConcArgs : pc[p] = "idle" /\ BatchBegin(p, a)
    \/ \E p \in Procs : BatchLoad(p)
    \/ \E p \in Procs : \E resp \in ConcAnswersFor(Len(Chunk(p))) : BatchBuild(p, resp)
    \/ \E p \in Procs : BatchRead(p)
    \/ \E p \in Procs : BatchWrite(p)

SpecConc == Init /\ [][NextConc]_vars

----------------------------------------------------------------------------
(* check_isochrones on bounded inputs, alone and inside a batch run whose  *)
(* collaborator answers record i of the table with points[i]               *)

PointDomain == {Pt(a, b) : a, b \in 0..MaxCoord}

PointSets == UNION {[1..n -> PointDomain] : n \in 0..MaxPts}

FilterInputs ==
    {<<s>> : s \in PointSets \cup {SetOutlier}}
        \cup {<<s, SetOutlier>> : s \in PointSets}
        \cup {<<SetOutlier, s>> : s \in PointSets}

FilterArgs == [dur : {Scalar(DefaultDuration)}, keep : {KeepStr}, bs : 1..MaxBatch]

PosIn(g, id) == CHOOSE i \in 1..Len(g) : g[i] = id

Oracle(p) ==
    [j \in 1..Len(Chunk(p)) |-> Returns(points[PosIn(gdf, Chunk(p)[j])])]

\* a call check_isochrones(points, std_devs=t)
CheckIsochrones(t) ==
    /\ chk_err = "unset"
    /\ LET res == check_isochrones(points, t)
       IN /\ chk_err' = res.err
          /\ corrected' = res.val
    /\ std_devs' = t
    /\ UNCHANGED points
    /\ UNCHANGED batchVars

InitFilter ==
    /\ points \in FilterInputs
    /\ gdf = [i \in 1..Len(points) |-> Len(points) + 1 - i]
    /\ InitBatch
    /\ std_devs = DefaultStdDevs
    /\ corrected = <<>>
    /\ chk_err = "unset"

NextFilter ==
    \/ \E t \in 0..MaxT : pc[1] \in {"idle", "done", "failed"} /\ CheckIsochrones(t)
    \/ \E a \in FilterArgs : chk_err = "unset" /\ pc[1] = "idle" /\ BatchBegin(1, a)
    \/ BatchLoad(1)
    \/ BatchBuild(1, Oracle(1))
    \/ BatchRead(1)
    \/ BatchWrite(1)

SpecFilter == InitFilter /\ [][NextFilter]_vars

----------------------------------------------------------------------------
(* Vocabulary of the properties *)

\* rows of the file that carry identifier id and duration d
RowsFor(rows, id, d) ==
    {i \in 1..Len(rows) : rows[i].GEOID = {id} /\ rows[i].duration = d}

Durations(a) == Range(a.dur.ds)

\* the rows the invocation has added to the file it found
AppendedRows(p) == SubSeq(file, Len(startFile[p]) + 1, Len(file))

Origins(rows) == {rows[i].coords.of : i \in 1..Len(rows)}

Started(p) == pc[p] \in {"build", "read", "write", "done", "failed"}

----------------------------------------------------------------------------
\* C1: after an invocation that completes without failure, the output file
\* holds exactly one row for every (identifier of the input table, requested
\* duration) pair.
C1_Completeness ==
    pc[1] = "done" =>
        \A id \in Range(gdf) : \A d \in Durations(args[1]) :
            Cardinality(RowsFor(file, id, d)) = 1

\* C2: a second run with the same arguments, after a run that completed,
\* issues no routing call and leaves the file as it found it.
C2_Idempotent ==
    (pc[1] = "done" /\ prev[1].valid /\ prev[1].ok /\ prev[1].args = args[1]) =>
        /\ calls[1] = <<>>
        /\ file = startFile[1]

\* C3: a routing failure in chunk k leaves exactly the rows of chunks 1..k-1
\* added to the file, and the next invocation with the same arguments has
\* exactly the records of chunks k..last to process.
C3_ChunkAtomicity ==
    /\ (pc[1] = "failed" /\ err[1] = "RoutingError") =>
          /\ IsPrefix(startFile[1], file)
          /\ Len(AppendedRows(1)) = ndx[1] * Len(args[1].dur.ds)
          /\ Origins(AppendedRows(1)) = Range(SubSeq(unfinished[1], 1, ndx[1]))
    /\ (Started(1) /\ prev[1].valid /\ prev[1].err = "RoutingError"
            /\ prev[1].args = args[1]) =>
          unfinished[1] = SubSeq(prev[1].unf, prev[1].ndx + 1, Len(prev[1].unf))

----------------------------------------------------------------------------
\* C4: an identifier present in the output file when an invocation starts
\* stays present, and that invocation issues no routing call for it and adds
\* no row for it.
C4_DoneStaysDone ==
    \A p \in {1} : pc[p] # "idle" =>
        LET done == FileIds(startFile[p])
        IN /\ done \subseteq FileIds(file)
           /\ \A i \in 1..Len(calls[p]) : calls[p][i].origin.of \notin done
           /\ IsPrefix(startFile[p], file)
           /\ Origins(AppendedRows(p)) \cap done = {}

\* a later invocation that found identifiers done and processed the others
C4_Witness ==
    /\ pc[1] = "done"
    /\ prev[1].valid
    /\ FileIds(startFile[1]) # {}
    /\ Len(calls[1]) > 0
    /\ Len(file) > Len(startFile[1])

\* C6: with duration [d], shp_to_isochrones does what it does with d: it
\* does not fail where the scalar call does not, and every routing request
\* carries the duration d.
C6_SingletonListAsScalar ==
    \A p \in {1} :
        (Started(p) /\ args[p].dur.list /\ Len(args[p].dur.ds) = 1) =>
            /\ err[p] # "ValueError: length"
            /\ \A i \in 1..Len(calls[p]) :
                  calls[p][i].duration = Scalar(args[p].dur.ds[1])

\* C8: the chunks are contiguous slices of the unfinished records in input
\* order, of size 1..batch_size and of size batch_size except the last, each
\* unfinished record in exactly one chunk; when a chunk is being processed
\* the rows of all chunks before it are in the file, and no routing call has
\* been made for a record of a later chunk.
C8_Chunking ==
    \A p \in {1} : Started(p) =>
        LET u == unfinished[p]
            n == args[p].bs
            nd == Len(args[p].dur.ds)
            c == Chunk(p)
        IN /\ u = SelectSeq(gdf, LAMBDA id : id \notin FileIds(startFile[p]))
           /\ \A i \in 1..Len(u) :
                 Cardinality({k \in BatchOffsets(Len(u), n) :
                     \E j \in 1..Len(batch(u, n, k)) :
                         /\ batch(u, n, k)[j] = u[i]
                         /\ k + j = i}) = 1
           /\ \A k \in BatchOffsets(Len(u), n) :
                 /\ Len(batch(u, n, k)) \in 1..n
                 /\ (Len(batch(u, n, k)) < n => k + Len(batch(u, n, k)) = Len(u))
           /\ IsPrefix(startFile[p], file)
           /\ pc[p] # "done" =>
                 /\ ndx[p] \in BatchOffsets(Len(u), n)
                 /\ Len(c) \in 1..n
                 /\ \A j \in 1..Len(c) : c[j] = u[ndx[p] + j]
                 /\ Len(AppendedRows(p)) = ndx[p] * nd
                 /\ Origins(AppendedRows(p)) = Range(SubSeq(u, 1, ndx[p]))
                 /\ \A i \in 1..Len(calls[p]) :
                       calls[p][i].origin.of \in Range(SubSeq(u, 1, ndx[p] + Len(c)))
           /\ pc[p] = "done" =>
                 /\ ndx[p] >= Len(u)
                 /\ Len(AppendedRows(p)) = Len(u) * nd
                 /\ Origins(AppendedRows(p)) = Range(u)

\* the last, short chunk of three unfinished records with batch size 2
C8_Witness ==
    /\ pc[1] = "read"
    /\ Len(unfinished[1]) = 3
    /\ args[1].bs = 2
    /\ ndx[1] = 2
    /\ Len(Chunk(1)) = 1
    /\ Len(file) = 2 * Len(args[1].dur.ds)

\* C9: every step leaves the rows of the file in place and in order; a step
\* that adds rows adds, after them, the whole table of the current chunk.
C9_AppendOnly ==
    [][/\ IsPrefix(file, file')
       /\ file' # file =>
            /\ pc[1] = "write"
            /\ SubSeq(file', Len(file) + 1, Len(file')) = batch_df[1]
            /\ Len(batch_df[1]) = Len(Chunk(1)) * Len(args[1].dur.ds)
            /\ Origins(batch_df[1]) = Range(Chunk(1))]_vars

\* a run aborted after it had added a chunk to rows left by an earlier run
C9_Witness ==
    /\ pc[1] = "failed"
    /\ Len(startFile[1]) > 0
    /\ Len(file) > Len(startFile[1])

----------------------------------------------------------------------------
HasDuplicate(rows) ==
    \E i, j \in 1..Len(rows) :
        /\ i < j
        /\ rows[i].GEOID # {}
        /\ rows[i].GEOID = rows[j].GEOID
        /\ rows[i].duration = rows[j].duration

\* C7: under concurrent invocations each invocation works on the unfinished
\* set it computed from the file it loaded, whatever the file holds since,
\* and each chunk append rewrites the file as the rows that invocation read
\* plus its chunk, so rows written in between are dropped.
C7_Unsafe ==
    /\ [](\A p \in Procs : Started(p) =>
            unfinished[p] =
                SelectSeq(gdf, LAMBDA id : id \notin FileIds(startFile[p])))
    /\ [][\A p \in Procs : (pc[p] = "write" /\ pc'[p] # "write") =>
            /\ file' = snap[p] \o batch_df[p]
            /\ \A i \in 1..Len(file) :
                  file[i].coords.of \notin Origins(snap[p]) \cup Origins(batch_df[p])
                      => lost' > lost]_vars

\* both invocations completed; the file holds a pair twice and a row one of
\* them had appended is gone
C7_Witness ==
    /\ pc[1] = "done"
    /\ pc[2] = "done"
    /\ HasDuplicate(file)
    /\ lost > 0

----------------------------------------------------------------------------
\* x is less than t standard deviations from the mean of xs, with
\* n = Len(xs), S the sum and Q the sum of squares:
\* (x - S/n)^2 < t^2 (Q - S^2/n) / (n - 1)
Near(x, xs, t) ==
    LET n == Len(xs)
        S == SumSeq(xs)
        Q == SumSeq([i \in 1..n |-> xs[i] * xs[i]])
    IN (n * x - S) * (n * x - S) * (n - 1) < t * t * n * (n * Q - S * S)

\* C5: what check_isochrones returns is, set by set, the points of that set
\* whose latitude and longitude are each less than std_devs standard
\* deviations from the set's own mean, in their order.
C5_FilterContract ==
    chk_err = "none" =>
        /\ Len(corrected) = Len(points)
        /\ \A i \in 1..Len(points) :
              corrected[i] =
                  SelectSeq(points[i],
                      LAMBDA x : /\ Near(x[1], Column(points[i], 1), std_devs)
                                 /\ Near(x[2], Column(points[i], 2), std_devs))

\* two sets at the default threshold, one of them losing a point and
\* keeping the others
C5_Witness ==
    /\ chk_err = "none"
    /\ std_devs = DefaultStdDevs
    /\ Len(points) = 2
    /\ \E i \in 1..2 : Len(corrected[i]) > 0 /\ Len(corrected[i]) < Len(points[i])
    /\ \E i \in 1..2 : Len(corrected[i]) = Len(points[i]) /\ Len(points[i]) > 0

----------------------------------------------------------------------------
Flat(ps, c) == \A i, j \in 1..Len(ps) : ps[i][c] = ps[j][c]

\* fewer than two points, or two or more with one coordinate constant
FewOrFlat(ps) == Len(ps) < 2 \/ Flat(ps, 1) \/ Flat(ps, 2)

\* exactly one point, or two or more with one coordinate constant
SingleOrFlat(ps) == Len(ps) = 1 \/ (Len(ps) >= 2 /\ (Flat(ps, 1) \/ Flat(ps, 2)))

\* the record of the table the collaborator answers with points[i]
RecordOf(i) == gdf[i]

\* C10 as stated: at the default threshold check_isochrones fails on every
\* set of fewer than two points or with a constant coordinate, and in a
\* batch run no row of a chunk holding such a set is appended.
C10_FailsOnFewOrFlat ==
    /\ (chk_err # "unset" /\ std_devs = DefaultStdDevs
            /\ \E i \in 1..Len(points) : FewOrFlat(points[i])) =>
          chk_err \in {"ZeroDivisionError", "StatisticsError"}
    /\ \A i \in 1..Len(points) : FewOrFlat(points[i]) =>
          /\ RecordOf(i) \notin Origins(file)
          /\ (pc[1] \in {"read", "write"} => RecordOf(i) \notin Range(Chunk(1)))

\* C10 amended: at the default threshold check_isochrones fails on every
\* set of exactly one point (StatisticsError) and on every set of two or
\* more points with a constant latitude or longitude (ZeroDivisionError);
\* in a batch run the chunk holding such a set aborts the run and no row of
\* that chunk is appended.
C10_FailsOnSingleOrFlat ==
    /\ (chk_err # "unset" /\ std_devs = DefaultStdDevs
            /\ \E i \in 1..Len(points) : SingleOrFlat(points[i])) =>
          LET first == CHOOSE i \in 1..Len(points) :
                          /\ SingleOrFlat(points[i])
                          /\ \A k \in 1..(i - 1) : ~SingleOrFlat(points[k])
          IN chk_err = IF Len(points[first]) = 1 THEN "StatisticsError"
                       ELSE "ZeroDivisionError"
    /\ \A i \in 1..Len(points) : SingleOrFlat(points[i]) =>
          /\ RecordOf(i) \notin Origins(file)
          /\ (pc[1] \in {"read", "write", "done"} => RecordOf(i) \notin Range(Chunk(1)))
          /\ (Started(1) /\ RecordOf(i) \in Range(Chunk(1)) /\ pc[1] # "build") =>
                /\ pc[1] = "failed"
                /\ err[1] \in {"ZeroDivisionError", "StatisticsError"}
                /\ Origins(file) \cap Range(Chunk(1)) = {}
                /\ file = startFile[1] \o AppendedRows(1)
                /\ Len(AppendedRows(1)) = ndx[1]

\* a set of two or more points with a constant coordinate, in the second
\* chunk of a run: the first chunk is in the file, the run is aborted, and
\* check_isochrones on the same sets raises too
C10_Witness ==
    /\ Len(points) = 2
    /\ Len(points[2]) >= 2
    /\ SingleOrFlat(points[2])
    /\ pc[1] = "failed"
    /\ err[1] = "ZeroDivisionError"
    /\ ndx[1] = 1
    /\ Len(file) = 1
    /\ std_devs = DefaultStdDevs
    /\ chk_err = "ZeroDivisionError"

====
